---- MODULE Spec2Model ----
(***************************************************************************)
(* Model of python-analyzer/complexity_analyzer.py: the preset table, the  *)
(* configuration resolver (load_config, find_project_config), the two AST  *)
(* visitors (ComplexityVisitor, ComplexityCounter) and analyze_file.       *)
(*                                                                         *)
(* Python values are written as strings holding their repr ("True",        *)
(* "False", "None", "0", "'no'"), so that a configuration may hold the     *)
(* non-boolean values a JSON override file can put into it.                *)
(*                                                                         *)
(* A syntax tree is the sequence of its nodes in depth-first pre-order;    *)
(* each node carries its class (kind), its depth below the Module node and *)
(* the list-valued field the counter reads from it (parts):                *)
(*   BoolOp          one entry per element of node.values                  *)
(*   Match           one entry per case: 1 when case.pattern is a MatchAs  *)
(*                   whose name is None, 0 otherwise                       *)
(*   comprehensions  one entry per generator: len(comp.ifs)                *)
(* The subtree of node i is the run of nodes after i that lie deeper.      *)
(* A node's position in the sequence stands for its lineno.                *)
(***************************************************************************)
EXTENDS Integers, Sequences, FiniteSets, TLC

VARIABLES PRESETS, env, dirs, rootFile, source, config, result, used,
          ctr, function_info

vars == <<PRESETS, env, dirs, rootFile, source, config, result, used,
          ctr, function_info>>

-----------------------------------------------------------------------------
(* Bounds of the model *)

MaxNodes == 3
MaxBody == 2
MaxOperands == 3
MaxCases == 2
MaxGenerators == 1
MaxIfs == 1
MaxDirs == 1
MaxLine == 1

-----------------------------------------------------------------------------
(* Python values *)

\* bool(v) of a value written as its repr
Truthy(v) == v \notin {"False", "None", "0", "''"}

\* dict.get(key, default)
Get(d, key, default) == IF key \in DOMAIN d THEN d[key] ELSE default

\* the dictionary d after d.update(m)
DictMerge(d, m) ==
  [k \in (DOMAIN d) \cup (DOMAIN m) |-> IF k \in DOMAIN m THEN m[k] ELSE d[k]]

EmptyDict == [k \in {} |-> "None"]

-----------------------------------------------------------------------------
(* PRESETS *)

FlagKeys ==
  {"countIf", "countWhile", "countFor", "countExcept", "countAssert",
   "countBoolOp", "countTernary", "countComprehension",
   "countComprehensionIf", "countMatch", "countWith"}

PresetKeys == {"name", "description"} \cup FlagKeys

PresetNames == {"strict_mccabe", "standard", "comprehensive"}

PyBool(b) == IF b THEN "True" ELSE "False"

StrictMcCabe ==
  [k \in PresetKeys |->
     CASE k = "name" -> "'Strict McCabe'"
       [] k = "description" -> "'Original McCabe complexity (minimal)'"
       [] OTHER -> PyBool(k \in {"countIf", "countWhile", "countFor",
                                 "countExcept", "countTernary", "countMatch"})]

Standard ==
  [k \in PresetKeys |->
     CASE k = "name" -> "'Standard (Industry Common)'"
       [] k = "description" -> "'Common industry standard (Radon, ESLint)'"
       [] OTHER -> PyBool(k \notin {"countAssert", "countWith"})]

Comprehensive ==
  [k \in PresetKeys |->
     CASE k = "name" -> "'Comprehensive'"
       [] k = "description" -> "'Most conservative (SonarQube-like)'"
       [] OTHER -> "True"]

PresetTable ==
  [p \in PresetNames |->
     CASE p = "strict_mccabe" -> StrictMcCabe
       [] p = "standard" -> Standard
       [] OTHER -> Comprehensive]

-----------------------------------------------------------------------------
(* Syntax trees *)

FunctionKinds == {"FunctionDef", "AsyncFunctionDef"}

SimpleKinds == {"If", "While", "For", "ExceptHandler", "Assert", "With", "IfExp"}

ComprehensionKinds == {"ListComp", "SetComp", "DictComp", "GeneratorExp"}

\* sequences over S of length lo..hi
SeqsOf(S, lo, hi) == UNION {[1..n -> S] : n \in lo..hi}

\* the values the list-valued field of a node of class kind can take
PartsOf(kind) ==
  CASE kind = "BoolOp" -> SeqsOf({0}, 2, MaxOperands)
    [] kind = "Match" -> SeqsOf({0, 1}, 1, MaxCases)
    [] kind \in ComprehensionKinds -> SeqsOf(0..MaxIfs, 1, MaxGenerators)
    [] OTHER -> {<<>>}

NodesOf(kinds, depths) ==
  UNION {[kind : {k}, depth : depths, parts : PartsOf(k)] : k \in kinds}

ModuleNode == [kind |-> "Module", depth |-> 0, parts |-> <<>>]

\* pre-order node sequences: a Module node, then nodes each at most one
\* level deeper than the node before it
RECURSIVE TreesFrom(_, _, _)
TreesFrom(t, kinds, more) ==
  {t} \cup
  IF more = 0 THEN {}
  ELSE UNION {TreesFrom(Append(t, nd), kinds, more - 1) :
                nd \in NodesOf(kinds, 1..(t[Len(t)].depth + 1))}

TreesOver(kinds) == TreesFrom(<<ModuleNode>>, kinds, MaxNodes)

SmallTreesOver(kinds) == TreesFrom(<<ModuleNode>>, kinds, MaxBody)

FunctionNode == [kind |-> "FunctionDef", depth |-> 1, parts |-> <<>>]

\* a module that starts with a function definition, and up to MaxBody nodes
\* in the function or after it
FunctionsOver(kinds) == TreesFrom(<<ModuleNode, FunctionNode>>, kinds, MaxBody)

\* index of the last node of the subtree rooted at i
RECURSIVE SubtreeEnd(_, _, _)
SubtreeEnd(t, i, j) ==
  IF j < Len(t) /\ t[j + 1].depth > t[i].depth
  THEN SubtreeEnd(t, i, j + 1) ELSE j

Subtree(t, i) == i..SubtreeEnd(t, i, i)

\* ast.iter_child_nodes(node), in order
RECURSIVE ChildrenFrom(_, _, _)
ChildrenFrom(t, i, j) ==
  IF j > SubtreeEnd(t, i, i) THEN <<>>
  ELSE IF t[j].depth = t[i].depth + 1
       THEN <<j>> \o ChildrenFrom(t, i, j + 1)
       ELSE ChildrenFrom(t, i, j + 1)

Children(t, i) == ChildrenFrom(t, i, i + 1)

-----------------------------------------------------------------------------
(* ComplexityCounter *)

SIMPLE_HANDLERS ==
  [k \in SimpleKinds |->
     CASE k = "If" -> [type |-> "if", key |-> "countIf"]
       [] k = "While" -> [type |-> "while", key |-> "countWhile"]
       [] k = "For" -> [type |-> "for", key |-> "countFor"]
       [] k = "ExceptHandler" -> [type |-> "except", key |-> "countExcept"]
       [] k = "Assert" -> [type |-> "assert", key |-> "countAssert"]
       [] k = "With" -> [type |-> "with", key |-> "countWith"]
       [] OTHER -> [type |-> "ternary", key |-> "countTernary"]]

\* ComplexityCounter.__init__
NewCounter == [complexity |-> 1, details |-> <<>>]

\* an _add_complexity that raises the score and records nothing
add_complexity_untracked(c, amount, type, line) ==
  [complexity |-> c.complexity + amount, details |-> c.details]

add_complexity(c, amount, type, line) ==
  [complexity |-> c.complexity + amount,
   details |-> Append(c.details, [type |-> type, line |-> line, amount |-> amount])]

\* ComplexityCounter.visit overrides NodeVisitor.visit: it looks the node up
\* in SIMPLE_HANDLERS and then calls generic_visit directly, so no visit_<Class>
\* method of the counter is ever dispatched to.
RECURSIVE CounterVisit(_, _, _, _), CounterVisitAll(_, _, _, _)

CounterGenericVisit(t, i, cfg, c) == CounterVisitAll(t, Children(t, i), cfg, c)

\* a visit that leaves a node's children out when the node's flag is off
CounterVisit_prune(t, i, cfg, c) ==
  LET k == t[i].kind
  IN IF k \in DOMAIN SIMPLE_HANDLERS
     THEN IF Truthy(Get(cfg, SIMPLE_HANDLERS[k].key, "True"))
          THEN CounterGenericVisit(t, i, cfg,
                                   add_complexity(c, 1, SIMPLE_HANDLERS[k].type, i))
          ELSE c
     ELSE CounterGenericVisit(t, i, cfg, c)

\* a visit that reads the flag the wrong way round
CounterVisit_inverted(t, i, cfg, c) ==
  LET k == t[i].kind
      c1 == IF k \in DOMAIN SIMPLE_HANDLERS
               /\ ~Truthy(Get(cfg, SIMPLE_HANDLERS[k].key, "True"))
            THEN add_complexity(c, 1, SIMPLE_HANDLERS[k].type, i)
            ELSE c
  IN CounterGenericVisit(t, i, cfg, c1)

CounterVisit(t, i, cfg, c) ==
  LET k == t[i].kind
      c1 == IF k \in DOMAIN SIMPLE_HANDLERS
               /\ Truthy(Get(cfg, SIMPLE_HANDLERS[k].key, "True"))
            THEN add_complexity(c, 1, SIMPLE_HANDLERS[k].type, i)
            ELSE c
  IN CounterGenericVisit(t, i, cfg, c1)

CounterVisitAll(t, kids, cfg, c) ==
  IF kids = <<>> THEN c
  ELSE CounterVisitAll(t, Tail(kids), cfg, CounterVisit(t, Head(kids), cfg, c))

visit_BoolOp(t, i, cfg, c) ==
  LET amount == Len(t[i].parts) - 1
      c1 == IF Truthy(Get(cfg, "countBoolOp", "True"))
            THEN add_complexity(c, amount, "bool_op", i)
            ELSE c
  IN CounterGenericVisit(t, i, cfg, c1)

RECURSIVE CompIfs(_, _, _, _)
CompIfs(c, n, i, cfg) ==
  IF n = 0 THEN c ELSE CompIfs(add_complexity(c, 1, "comp_if", i), n - 1, i, cfg)

RECURSIVE CompGenerators(_, _, _, _, _)
CompGenerators(c, gens, comp_type, i, cfg) ==
  IF gens = <<>> THEN c
  ELSE LET c1 == add_complexity(c, 1, comp_type, i)
           c2 == IF Truthy(Get(cfg, "countComprehensionIf", "True"))
                 THEN CompIfs(c1, Head(gens), i, cfg) ELSE c1
       IN CompGenerators(c2, Tail(gens), comp_type, i, cfg)

handle_comprehension(t, i, cfg, c, comp_type) ==
  IF ~Truthy(Get(cfg, "countComprehension", "True")) THEN c
  ELSE CompGenerators(c, t[i].parts, comp_type, i, cfg)

CompType(kind) ==
  CASE kind = "ListComp" -> "list_comp"
    [] kind = "SetComp" -> "set_comp"
    [] kind = "DictComp" -> "dict_comp"
    [] OTHER -> "gen_exp"

\* visit_ListComp, visit_SetComp, visit_DictComp, visit_GeneratorExp
visit_Comprehension(t, i, cfg, c) ==
  CounterGenericVisit(t, i, cfg,
                      handle_comprehension(t, i, cfg, c, CompType(t[i].kind)))

RECURSIVE MatchCases(_, _, _)
MatchCases(c, cases, i) ==
  IF cases = <<>> THEN c
  ELSE MatchCases(IF Head(cases) = 0 THEN add_complexity(c, 1, "match_case", i) ELSE c,
                  Tail(cases), i)

visit_Match(t, i, cfg, c) ==
  LET c1 == IF Truthy(Get(cfg, "countMatch", "True"))
            THEN MatchCases(c, t[i].parts, i) ELSE c
  IN CounterGenericVisit(t, i, cfg, c1)

-----------------------------------------------------------------------------
(* ComplexityVisitor *)

\* ComplexityVisitor.__init__: self.config = config or PRESETS['standard']
VisitorConfig(P, cfg) == IF DOMAIN cfg # {} THEN cfg ELSE P["standard"]

\* _visit_function: one counting pass over the node, one record appended;
\* the node's children are not visited by the ComplexityVisitor itself
visit_function(t, i, cfg, functions) ==
  LET counter == CounterVisit(t, i, cfg, NewCounter)
  IN Append(functions,
            [node |-> i,
             is_async |-> (t[i].kind = "AsyncFunctionDef"),
             complexity |-> counter.complexity,
             details |-> counter.details])

RECURSIVE VisitorVisit(_, _, _, _), VisitorVisitAll(_, _, _, _)

\* NodeVisitor.visit: visit_FunctionDef / visit_AsyncFunctionDef when the node
\* is a definition, generic_visit otherwise
VisitorVisit(t, i, cfg, functions) ==
  IF t[i].kind \in FunctionKinds
  THEN visit_function(t, i, cfg, functions)
  ELSE VisitorVisitAll(t, Children(t, i), cfg, functions)

VisitorVisitAll(t, kids, cfg, functions) ==
  IF kids = <<>> THEN functions
  ELSE VisitorVisitAll(t, Tail(kids), cfg,
                       VisitorVisit(t, Head(kids), cfg, functions))

\* visitor = ComplexityVisitor(config); visitor.visit(tree); visitor.functions
ComplexityVisitor(P, t, cfg) == VisitorVisit(t, 1, VisitorConfig(P, cfg), <<>>)

-----------------------------------------------------------------------------
(* Files and the environment *)

\* os.getenv / an omitted argument returning None
NONE == "<None>"

\* bool(s) of a str-or-None
StrTruthy(s) == s \notin {NONE, ""}

\* What json.load returns, by JSON type.  n is what decides bool(doc): the
\* number of members, items or characters, the number itself, 1/0 for
\* true/false, 0 for null.  pairs tells whether every item of an array is
\* itself a two-item sequence (so dict.update accepts the array); obj is the
\* mapping an object, or such an array, holds.
NoneDoc == [t |-> "null", n |-> 0, pairs |-> FALSE, obj |-> EmptyDict]

ObjectDoc(m) ==
  [t |-> "object", n |-> Cardinality(DOMAIN m), pairs |-> FALSE, obj |-> m]

PairsDoc(m) ==
  [t |-> "array", n |-> Cardinality(DOMAIN m), pairs |-> TRUE, obj |-> m]

ScalarDoc(t, n) == [t |-> t, n |-> n, pairs |-> FALSE, obj |-> EmptyDict]

DocTruthy(doc) == doc.n > 0

\* the exception dict.update(doc) raises, "None" when it raises none
UpdateRaises(doc) ==
  CASE doc.t = "object" -> "None"
    [] doc.t = "array" -> IF doc.pairs THEN "None" ELSE "TypeError"
    [] doc.t = "string" -> IF doc.n = 0 THEN "None" ELSE "ValueError"
    [] OTHER -> "TypeError"

\* a .complexity.json in one directory
Absent == [st |-> "absent", doc |-> NoneDoc]
Unreadable == [st |-> "unreadable", doc |-> NoneDoc]
InvalidJson == [st |-> "invalid_json", doc |-> NoneDoc]
JsonFile(doc) == [st |-> "json", doc |-> doc]

\* exception classes: the classes cls is an instance of
Bases(cls) ==
  CASE cls \in {"FileNotFoundError", "PermissionError"} -> {cls, "OSError", "Exception"}
    [] cls = "UnicodeDecodeError" -> {cls, "ValueError", "Exception"}
    [] OTHER -> {cls, "Exception"}

-----------------------------------------------------------------------------
(* find_project_config, load_config *)

\* dirs[1] is the directory of the analysed file, dirs[Len(dirs)] the
\* directory just below '/'.  The loop stops before '/' itself, and it stops
\* at the first directory that has the file, loadable or not.
RECURSIVE FindFrom(_, _)
FindFrom(d, i) ==
  IF i > Len(d) THEN NoneDoc
  ELSE IF d[i].st # "absent"
       THEN IF d[i].st = "json" THEN d[i].doc ELSE NoneDoc
       ELSE FindFrom(d, i + 1)

find_project_config(d) == FindFrom(d, 1)

\* A dictionary on the heap: ref names the preset entry it is (an alias of
\* PRESETS[ref]) or is "fresh" for an object of its own; P is the preset table
\* as it stands, val the dictionary's content.
\* the entry itself, where the code takes PRESETS[name].copy()
AliasOf(P, name) == [P |-> P, ref |-> name, val |-> P[name]]

CopyOf(P, name) == [P |-> P, ref |-> "fresh", val |-> P[name]]

\* config.update(m)
DictUpdate(h, m) ==
  LET v == DictMerge(h.val, m)
  IN [P |-> IF h.ref = "fresh" THEN h.P ELSE [h.P EXCEPT ![h.ref] = v],
      ref |-> h.ref, val |-> v]

\* a resolver that overlays the environment's preset before the project file
load_config_env_first(P, d, e, preset) ==
  LET base == IF StrTruthy(preset) /\ preset \in DOMAIN P
              THEN CopyOf(P, preset) ELSE CopyOf(P, "standard")
      overlaid == IF StrTruthy(e) /\ e \in DOMAIN base.P
                  THEN DictUpdate(base, base.P[e]) ELSE base
      project_config == find_project_config(d)
      raised == IF DocTruthy(project_config)
                THEN UpdateRaises(project_config) ELSE "None"
      final == IF DocTruthy(project_config) /\ raised = "None"
               THEN DictUpdate(overlaid, project_config.obj) ELSE overlaid
  IN IF raised # "None"
     THEN [exc |-> raised, val |-> EmptyDict, P |-> base.P]
     ELSE [exc |-> "None", val |-> final.val, P |-> final.P]

\* the outcome of a call: exc is the exception it raised ("None": it
\* returned val), P the preset table after it
load_config(P, d, e, preset) ==
  LET base == IF StrTruthy(preset) /\ preset \in DOMAIN P
              THEN CopyOf(P, preset) ELSE CopyOf(P, "standard")
      project_config == find_project_config(d)
      raised == IF DocTruthy(project_config)
                THEN UpdateRaises(project_config) ELSE "None"
      merged == IF DocTruthy(project_config) /\ raised = "None"
                THEN DictUpdate(base, project_config.obj) ELSE base
      final == IF StrTruthy(e) /\ e \in DOMAIN merged.P
               THEN DictUpdate(merged, merged.P[e]) ELSE merged
  IN IF raised # "None"
     THEN [exc |-> raised, val |-> EmptyDict, P |-> base.P]
     ELSE [exc |-> "None", val |-> final.val, P |-> final.P]

-----------------------------------------------------------------------------
(* analyze_file *)

\* a source file: st says what reading and parsing it does
MissingFile == [st |-> "missing", lineno |-> 0, tree |-> <<>>]
UnreadableFile == [st |-> "unreadable", lineno |-> 0, tree |-> <<>>]
UndecodableFile == [st |-> "undecodable", lineno |-> 0, tree |-> <<>>]
\* lineno 0 stands for a SyntaxError whose lineno is None
BadSyntax(l) == [st |-> "syntax_error", lineno |-> l, tree |-> <<>>]
Parsable(t) == [st |-> "ok", lineno |-> 0, tree |-> t]

\* open(...), f.read(), ast.parse(...): the exception raised, if any
ReadParseRaises(src) ==
  CASE src.st = "missing" -> "FileNotFoundError"
    [] src.st = "unreadable" -> "PermissionError"
    [] src.st = "undecodable" -> "UnicodeDecodeError"
    [] src.st = "syntax_error" -> "SyntaxError"
    [] OTHER -> "None"

\* an optional argument: given = FALSE is an omitted argument (None)
NoArg == [given |-> FALSE, val |-> EmptyDict]
Arg(v) == [given |-> TRUE, val |-> v]

\* the body of the try block: the exception it raises or the result it
\* returns, with the local variable config and the preset table after it
TryBody(P, src, d, e, arg) ==
  LET rp == ReadParseRaises(src)
      lc == IF arg.given THEN [exc |-> "None", val |-> arg.val, P |-> P]
            ELSE load_config(P, d, e, NONE)
      functions == ComplexityVisitor(lc.P, src.tree, lc.val)
  IN IF rp # "None" THEN [exc |-> rp, P |-> P, used |-> NoArg]
     ELSE IF lc.exc # "None" THEN [exc |-> lc.exc, P |-> lc.P, used |-> NoArg]
     ELSE [exc |-> "None", P |-> lc.P, used |-> Arg(lc.val),
           result |-> [success |-> TRUE,
                       functions |-> functions,
                       total_functions |-> Len(functions),
                       config_used |-> Get(lc.val, "name", "'custom'")]]

\* the except clauses without the closing `except Exception`
Handle_no_catch_all(exc, src) ==
  IF "SyntaxError" \in Bases(exc)
  THEN [raised |-> "None", success |-> FALSE, error_type |-> "syntax",
        line |-> src.lineno, functions |-> <<>>]
  ELSE IF "FileNotFoundError" \in Bases(exc)
  THEN [raised |-> "None", success |-> FALSE, error_type |-> "file_not_found",
        functions |-> <<>>]
  ELSE [raised |-> exc]

\* the except clauses, in order
Handle(exc, src) ==
  IF "SyntaxError" \in Bases(exc)
  THEN [raised |-> "None", success |-> FALSE, error_type |-> "syntax",
        line |-> src.lineno, functions |-> <<>>]
  ELSE IF "FileNotFoundError" \in Bases(exc)
  THEN [raised |-> "None", success |-> FALSE, error_type |-> "file_not_found",
        functions |-> <<>>]
  ELSE IF "Exception" \in Bases(exc)
  THEN [raised |-> "None", success |-> FALSE, error_type |-> "unknown",
        functions |-> <<>>]
  ELSE [raised |-> exc]

analyze_file(P, src, d, e, arg) ==
  LET body == TryBody(P, src, d, e, arg)
  IN [P |-> body.P, used |-> body.used,
      result |-> IF body.exc = "None"
                 THEN [raised |-> "None"] @@ body.result
                 ELSE Handle(body.exc, src)]

-----------------------------------------------------------------------------
(* The calls *)

PresetArgs == {NONE, ""} \cup PresetNames \cup {"bogus"}

EnvValues == {NONE, ""} \cup PresetNames \cup {"bogus"}

\* config: the last call of load_config, its argument and its outcome
NotLoaded == [preset |-> NONE, exc |-> "NotLoaded", val |-> EmptyDict]

NoResult == [raised |-> "NoCall"]

\* main: config = load_config(file_path, preset)
LoadConfig ==
  \E preset \in PresetArgs :
    LET r == load_config(PRESETS, dirs, env, preset)
    IN /\ config' = [preset |-> preset, exc |-> r.exc, val |-> r.val]
       /\ PRESETS' = r.P
       /\ UNCHANGED <<env, dirs, rootFile, source, result, used,
                      ctr, function_info>>

\* analyze_file(file_path): the configuration is resolved inside the call
AnalyzeFile ==
  LET r == analyze_file(PRESETS, source, dirs, env, NoArg)
  IN /\ result' = r.result
     /\ used' = r.used
     /\ PRESETS' = r.P
     /\ UNCHANGED <<env, dirs, rootFile, source, config, ctr, function_info>>

\* main: result = analyze_file(file_path, config), with the configuration
\* load_config returned; a caller may also pass a configuration of its own
AnalyzeFileWith ==
  \E c \in {config.val, EmptyDict} :
    /\ config.exc = "None"
    /\ LET r == analyze_file(PRESETS, source, dirs, env, Arg(c))
       IN /\ result' = r.result
          /\ used' = r.used
          /\ PRESETS' = r.P
    /\ UNCHANGED <<env, dirs, rootFile, source, config, ctr, function_info>>

Next == LoadConfig \/ AnalyzeFile \/ AnalyzeFileWith

\* analyze_file(file_path) alone, as compare_methods calls it
NextAnalyze == AnalyzeFile

\* load_config alone
NextLoad == LoadConfig

-----------------------------------------------------------------------------
(* One counting pass, node by node.  ctr is the ComplexityCounter of       *)
(* _visit_function: its complexity and details, and where its traversal    *)
(* stands: stack holds, innermost generic_visit first, the children each   *)
(* pending generic_visit has still to visit.  function_info is the record  *)
(* _visit_function builds.                                                 *)

NoCounter ==
  [pc |-> "idle", node |-> 0, cfg |-> EmptyDict, stack |-> <<>>,
   complexity |-> 0, details |-> <<>>]

NoFunction == [node |-> 0, complexity |-> 0, details |-> <<>>]

\* the loop over SIMPLE_HANDLERS in ComplexityCounter.visit, for one node
VisitNode(t, i, cfg, c) ==
  LET k == t[i].kind
  IN IF k \in DOMAIN SIMPLE_HANDLERS
        /\ Truthy(Get(cfg, SIMPLE_HANDLERS[k].key, "True"))
     THEN add_complexity(c, 1, SIMPLE_HANDLERS[k].type, i)
     ELSE c

\* the pending lists that still hold a node
Pending(lists) == SelectSeq(lists, LAMBDA l : l # <<>>)

\* the definitions the ComplexityVisitor calls _visit_function on
Discovered(P, t, cfg) ==
  LET fs == ComplexityVisitor(P, t, cfg) IN {fs[f].node : f \in 1..Len(fs)}

\* _visit_function: function_info = {..., 'complexity': 1, 'details': []};
\* counter = ComplexityCounter(self.config); counter.visit(node) is entered
StartPass ==
  LET lc == load_config(PRESETS, dirs, env, NONE)
  IN /\ ctr.pc \in {"idle", "done"}
     /\ source.st = "ok"
     /\ lc.exc = "None"
     /\ \E i \in Discovered(lc.P, source.tree, lc.val) :
          /\ ctr' = [pc |-> "visiting", node |-> i,
                         cfg |-> VisitorConfig(lc.P, lc.val),
                         stack |-> <<<<i>>>>,
                         complexity |-> NewCounter.complexity,
                         details |-> NewCounter.details]
          /\ function_info' = [node |-> i, complexity |-> 1, details |-> <<>>]
     /\ UNCHANGED <<PRESETS, env, dirs, rootFile, source, config, result, used>>

\* counter.visit(child) for the next node of the traversal
VisitStep ==
  /\ ctr.pc = "visiting"
  /\ ctr.stack # <<>>
  /\ LET i == Head(Head(ctr.stack))
         c == VisitNode(source.tree, i, ctr.cfg,
                        [complexity |-> ctr.complexity,
                         details |-> ctr.details])
     IN ctr' = [ctr EXCEPT
                      !.complexity = c.complexity,
                      !.details = c.details,
                      !.stack = Pending(<<Children(source.tree, i),
                                          Tail(Head(ctr.stack))>>
                                        \o Tail(ctr.stack))]
  /\ UNCHANGED <<PRESETS, env, dirs, rootFile, source, config, result, used,
                 function_info>>

\* counter.visit(node) has returned: function_info['complexity'] and
\* function_info['details'] are set from the counter
FinishPass ==
  /\ ctr.pc = "visiting"
  /\ ctr.stack = <<>>
  /\ ctr' = [ctr EXCEPT !.pc = "done"]
  /\ function_info' = [function_info EXCEPT
                         !.complexity = ctr.complexity,
                         !.details = ctr.details]
  /\ UNCHANGED <<PRESETS, env, dirs, rootFile, source, config, result, used>>

NextPass == StartPass \/ VisitStep \/ FinishPass

-----------------------------------------------------------------------------
(* Initial states: the files, the environment, no call made yet *)

ChainsOf(states) == SeqsOf(states, 0, MaxDirs)

InitOf(chains, roots, envs, sources) ==
  /\ PRESETS = PresetTable
  /\ env \in envs
  /\ dirs \in chains
  /\ rootFile \in roots
  /\ source \in sources
  /\ config = NotLoaded
  /\ result = NoResult
  /\ used = NoArg
  /\ ctr = NoCounter
  /\ function_info = NoFunction

Flag(k, v) == [x \in {k} |-> v]

BasicMaps ==
  {EmptyDict, Flag("countWith", "True"), Flag("countWith", "0"),
   Flag("name", "'Mine'")}

BadDocs ==
  {ScalarDoc("array", 2), ScalarDoc("string", 2), ScalarDoc("number", 5),
   ScalarDoc("bool", 1)}

FalsyDocs ==
  {ScalarDoc("array", 0), ScalarDoc("string", 0), ScalarDoc("number", 0),
   ScalarDoc("bool", 0), NoneDoc}

BasicFiles ==
  {Absent, Unreadable, InvalidJson}
  \cup {JsonFile(ObjectDoc(m)) : m \in BasicMaps}
  \cup {JsonFile(PairsDoc(Flag("countWith", "True")))}
  \cup {JsonFile(doc) : doc \in BadDocs \cup FalsyDocs}

FailingSources ==
  {MissingFile, UnreadableFile, UndecodableFile}
  \cup {BadSyntax(l) : l \in 0..MaxLine}

BasicSources ==
  FailingSources \cup {Parsable(t) : t \in SmallTreesOver({"FunctionDef", "With"})}

\* the override files of the default specification: one of each outcome of
\* find_project_config and of config.update
DriverFiles ==
  {Absent, InvalidJson, JsonFile(ScalarDoc("array", 2))}
  \cup {JsonFile(ObjectDoc(m)) : m \in {Flag("countWith", "True"), Flag("name", "'Mine'")}}

\* the variable unset, naming a preset, naming none
DriverEnvs == {NONE, "comprehensive", "bogus"}

Init == InitOf(ChainsOf(DriverFiles), {Absent}, DriverEnvs, BasicSources)

Spec == Init /\ [][Next]_vars

-----------------------------------------------------------------------------
(* Specifications of the counting engine: one parsable file per initial    *)
(* state, its tree drawn from the trees over some node classes.            *)

EngineInit(trees, files, envs) ==
  InitOf({<<f>> : f \in files}, {Absent}, envs, {Parsable(t) : t \in trees})

InitDiscovery ==
  EngineInit(TreesOver({"FunctionDef", "AsyncFunctionDef", "ClassDef", "If"}),
             {Absent}, {NONE})

SpecDiscovery == InitDiscovery /\ [][NextAnalyze]_vars

InitDispatch ==
  EngineInit(TreesOver({"FunctionDef", "BoolOp", "Match", "ListComp", "If"}),
             {Absent}, {NONE, "strict_mccabe"})

SpecDispatch == InitDispatch /\ [][NextAnalyze]_vars

SimpleFiles ==
  {Absent}
  \cup {JsonFile(ObjectDoc(Flag(SIMPLE_HANDLERS[k].key, "False"))) : k \in SimpleKinds}
  \cup {JsonFile(ObjectDoc(Flag(key, "True"))) : key \in {"countAssert", "countWith"}}

InitSimple ==
  EngineInit(FunctionsOver({"FunctionDef"} \cup SimpleKinds), SimpleFiles, {NONE})

SpecSimple == InitSimple /\ [][NextAnalyze]_vars

-----------------------------------------------------------------------------
(* What the claims speak of *)

\* analyze_file has returned a success result
Analysed == result.raised = "None" /\ result.success

Tree == source.tree

\* the configuration the counting passes of the last analysis ran under
Effective == VisitorConfig(PRESETS, used.val)

DefinitionNodes(t) == {i \in 1..Len(t) : t[i].kind \in FunctionKinds}

\* the nodes of the definitions nested in definition i, the nested
\* definition nodes included
NestedIn(t, i) ==
  UNION {Subtree(t, g) : g \in {j \in Subtree(t, i) \ {i} : t[j].kind \in FunctionKinds}}

RECURSIVE SumAmounts(_)
SumAmounts(ds) == IF ds = <<>> THEN 0 ELSE Head(ds).amount + SumAmounts(Tail(ds))

RecordsOf(i) == {f \in 1..Len(result.functions) : result.functions[f].node = i}

EntriesAt(F, type, j) ==
  {d \in 1..Len(F.details) : F.details[d].type = type /\ F.details[d].line = j}

-----------------------------------------------------------------------------
(* C1 *)

\* C1: every function or method definition of the tree, sync or async, nested
\* in another definition or not, has exactly one FunctionRecord, so the number
\* of records is the number of definition nodes.
C1_OneRecordPerDefinition ==
  Analysed =>
    /\ Len(result.functions) = Cardinality(DefinitionNodes(Tree))
    /\ \A i \in DefinitionNodes(Tree) : Cardinality(RecordsOf(i)) = 1

-----------------------------------------------------------------------------
(* C2 *)

\* C2: the record of a function F holds no contribution from a decision point
\* inside a definition nested in F, and F's score is 1 plus the contributions
\* of the decision points outside the nested definitions.
C2_NestedBodiesExcluded ==
  Analysed =>
    \A f \in 1..Len(result.functions) :
      LET F == result.functions[f]
          inner == NestedIn(Tree, F.node)
          own == SelectSeq(F.details, LAMBDA d : d.line \notin inner)
      IN /\ \A d \in 1..Len(F.details) : F.details[d].line \notin inner
         /\ F.complexity = 1 + SumAmounts(own)

-----------------------------------------------------------------------------
(* C3 *)

\* C3: with countBoolOp enabled, every and/or chain node with N operands in a
\* function's subtree, at any depth, has exactly one 'bool_op' contribution of
\* amount N-1 in the function's record.
C3_BoolOpChainCounted ==
  (Analysed /\ Truthy(Get(Effective, "countBoolOp", "True"))) =>
    \A f \in 1..Len(result.functions) :
      LET F == result.functions[f]
      IN \A j \in Subtree(Tree, F.node) :
           Tree[j].kind = "BoolOp" =>
             /\ Cardinality(EntriesAt(F, "bool_op", j)) = 1
             /\ \A d \in EntriesAt(F, "bool_op", j) :
                  F.details[d].amount = Len(Tree[j].parts) - 1

-----------------------------------------------------------------------------
(* C4 *)

Wildcards(cases) == Cardinality({c \in 1..Len(cases) : cases[c] = 1})

\* C4: with countMatch enabled, a match statement with K cases of which
\* exactly one is the bare wildcard default has K-1 'match_case' contributions
\* of amount 1 in the record of the function it lies in.
C4_MatchCasesCounted ==
  (Analysed /\ Truthy(Get(Effective, "countMatch", "True"))) =>
    \A f \in 1..Len(result.functions) :
      LET F == result.functions[f]
      IN \A j \in Subtree(Tree, F.node) :
           (Tree[j].kind = "Match" /\ Wildcards(Tree[j].parts) = 1) =>
             /\ Cardinality(EntriesAt(F, "match_case", j)) = Len(Tree[j].parts) - 1
             /\ \A d \in EntriesAt(F, "match_case", j) : F.details[d].amount = 1

-----------------------------------------------------------------------------
(* C5 *)

Enabled(cfg, k) == Truthy(Get(cfg, SIMPLE_HANDLERS[k].key, "True"))

\* C5: for each simple construct kind, every node of the kind in a function's
\* subtree has exactly one contribution of amount 1 when the kind's flag is
\* enabled and none when it is disabled, whatever lies above the node, and the
\* score is 1 plus the number of nodes of enabled kinds.
C5_SimpleConstructsGated ==
  Analysed =>
    \A f \in 1..Len(result.functions) :
      LET F == result.functions[f]
          sub == Subtree(Tree, F.node)
      IN /\ \A k \in SimpleKinds : \A j \in sub :
              Tree[j].kind = k =>
                LET es == EntriesAt(F, SIMPLE_HANDLERS[k].type, j)
                IN IF Enabled(Effective, k)
                   THEN /\ Cardinality(es) = 1
                        /\ \A d \in es : F.details[d].amount = 1
                   ELSE es = {}
         /\ \A d \in 1..Len(F.details) :
              /\ F.details[d].line \in sub
              /\ Tree[F.details[d].line].kind \in SimpleKinds
              /\ F.details[d].type = SIMPLE_HANDLERS[Tree[F.details[d].line].kind].type
         /\ F.complexity =
              1 + Cardinality({j \in sub : Tree[j].kind \in SimpleKinds
                                           /\ Enabled(Effective, Tree[j].kind)})

\* a counted construct below a construct whose flag is off, with both flag
\* values in play in one function
C5_Witness ==
  /\ Analysed
  /\ \E f \in 1..Len(result.functions) :
       LET F == result.functions[f]
       IN \E j \in Subtree(Tree, F.node) : \E m \in Subtree(Tree, j) \ {j} :
            /\ Tree[j].kind \in SimpleKinds /\ ~Enabled(Effective, Tree[j].kind)
            /\ Tree[m].kind \in SimpleKinds /\ Enabled(Effective, Tree[m].kind)
            /\ F.complexity = 2

-----------------------------------------------------------------------------
(* Specifications of the resolver *)

\* analyze_file(file_path) over every state of the override file
InitOverride ==
  InitOf(ChainsOf(BasicFiles), {Absent}, EnvValues,
         {Parsable(t) : t \in TreesOver({"FunctionDef", "With"})})

SpecOverride == InitOverride /\ [][NextAnalyze]_vars

ConfigMaps ==
  {EmptyDict, Flag("countIf", "False") @@ Flag("countWith", "True")}
  \cup {Flag(k, v) : k \in FlagKeys \cup {"name", "foo"}, v \in {"True", "False", "0"}}

ConfigFiles ==
  {Absent, Unreadable, InvalidJson, JsonFile(ScalarDoc("array", 2)), JsonFile(NoneDoc)}
  \cup {JsonFile(ObjectDoc(m)) : m \in ConfigMaps}

InitConfig ==
  InitOf(ChainsOf(ConfigFiles),
         {Absent, JsonFile(ObjectDoc(Flag("countWith", "True")))}, EnvValues,
         {Parsable(<<ModuleNode>>)})

SpecConfig == InitConfig /\ [][NextLoad]_vars

InitPresets ==
  EngineInit(FunctionsOver({"FunctionDef", "If", "With", "Assert", "BoolOp"}),
             {Absent, JsonFile(ObjectDoc(Flag("countIf", "False")))},
             {NONE, "strict_mccabe", "comprehensive"})

SpecPresets == InitPresets /\ [][NextAnalyze]_vars

\* the file the upward search stops at
RECURSIVE NearestFrom(_, _)
NearestFrom(d, i) ==
  IF i > Len(d) THEN Absent
  ELSE IF d[i].st # "absent" THEN d[i] ELSE NearestFrom(d, i + 1)

Nearest == NearestFrom(dirs, 1)

KeyToBoolean(doc) ==
  doc.t = "object" /\ \A k \in DOMAIN doc.obj : doc.obj[k] \in {"True", "False"}

\* an override file that is there and is no readable key-to-boolean object
ConfigError ==
  \/ Nearest.st \in {"unreadable", "invalid_json"}
  \/ Nearest.st = "json" /\ ~KeyToBoolean(Nearest.doc)

\* the layers the spec describes, with no override file
PresetOnly(preset, e) ==
  IF e \in PresetNames THEN PresetTable[e]
  ELSE IF preset \in PresetNames THEN PresetTable[preset]
  ELSE PresetTable["standard"]

-----------------------------------------------------------------------------
(* C6 *)

\* C6: whatever the override file found by the upward search is, unreadable,
\* not JSON, or JSON that is no key-to-boolean object, analyze_file on a
\* parsable file returns success = true and runs under the RuleSet it would
\* have with no override file.
C6_ConfigErrorsNeverFail ==
  (result.raised # "NoCall" /\ source.st = "ok" /\ ConfigError) =>
    /\ result.raised = "None"
    /\ result.success
    /\ used.val = PresetOnly(NONE, env)

-----------------------------------------------------------------------------
(* C7 *)

\* the mapping the override file holds, empty when no file is loaded
OverrideMap == IF Nearest.st = "json" THEN Nearest.doc.obj ELSE EmptyDict

\* the override file is a mapping, or none is loaded
OverrideIsMapping ==
  Nearest.st # "json" \/ Nearest.doc.t = "object" \/ ~DocTruthy(Nearest.doc)

\* C7: load_config returns a RuleSet that defines all eleven flags, each with
\* the value of the environment's preset if the variable names one, else the
\* override file's value if the file defines the key, else the value of the
\* base preset: the named one if it is in the table, the standard one if not.
C7_LayeredRuleSet ==
  (config.exc # "NotLoaded" /\ OverrideIsMapping) =>
    /\ config.exc = "None"
    /\ FlagKeys \subseteq DOMAIN config.val
    /\ \A k \in FlagKeys :
         config.val[k] =
           IF env \in PresetNames THEN PresetTable[env][k]
           ELSE IF k \in DOMAIN OverrideMap THEN OverrideMap[k]
           ELSE IF config.preset \in PresetNames THEN PresetTable[config.preset][k]
           ELSE PresetTable["standard"][k]

\* the three layers at once: an unknown preset name, an override file that
\* defines a flag, and an environment preset that takes the flag back
C7_Witness ==
  /\ config.exc = "None"
  /\ config.preset = "bogus"
  /\ OverrideMap = Flag("countIf", "False")
  /\ env = "strict_mccabe"
  /\ config.val["countIf"] = "True"
  /\ config.val["countBoolOp"] = "False"

-----------------------------------------------------------------------------
(* C8 *)

\* the score of the f-th function of the tree under cfg
ScoreUnder(f, cfg) == ComplexityVisitor(PRESETS, Tree, cfg)[f].complexity

FlagsOf(cfg) == [k \in FlagKeys |-> cfg[k]]

\* C8: no function's score drops when one disabled flag is enabled, and the
\* score under strict is at most the score under standard, which is at most
\* the score under comprehensive.
C8_Monotone ==
  Analysed =>
    \A f \in 1..Len(result.functions) :
      LET score == result.functions[f].complexity
      IN /\ \A k \in FlagKeys :
              ~Truthy(Effective[k]) =>
                score <= ScoreUnder(f, [Effective EXCEPT ![k] = "True"])
         /\ FlagsOf(Effective) = FlagsOf(PresetTable["strict_mccabe"]) =>
              score <= ScoreUnder(f, PresetTable["standard"])
         /\ FlagsOf(Effective) = FlagsOf(PresetTable["standard"]) =>
              score <= ScoreUnder(f, PresetTable["comprehensive"])
         /\ ScoreUnder(f, PresetTable["strict_mccabe"])
              <= ScoreUnder(f, PresetTable["standard"])
         /\ ScoreUnder(f, PresetTable["standard"])
              <= ScoreUnder(f, PresetTable["comprehensive"])

\* a function analysed under standard that scores more under comprehensive
C8_Witness ==
  /\ Analysed
  /\ FlagsOf(Effective) = FlagsOf(PresetTable["standard"])
  /\ \E f \in 1..Len(result.functions) :
       /\ result.functions[f].complexity > 1
       /\ result.functions[f].complexity < ScoreUnder(f, PresetTable["comprehensive"])

-----------------------------------------------------------------------------
(* C9 *)

\* C9: analyze_file always returns: error_type 'syntax' with the line when the
\* source does not parse, 'file_not_found' when the path does not exist,
\* 'unknown' for every other failure; a failure has no functions, a success
\* has total_functions = len(functions).
C9_AlwaysAResult ==
  result.raised # "NoCall" =>
    /\ result.raised = "None"
    /\ source.st = "syntax_error" =>
         ~result.success /\ result.error_type = "syntax" /\ result.line = source.lineno
    /\ source.st = "missing" =>
         ~result.success /\ result.error_type = "file_not_found"
    /\ (~result.success /\ source.st \notin {"syntax_error", "missing"}) =>
         result.error_type = "unknown"
    /\ ~result.success => result.functions = <<>>
    /\ result.success => result.total_functions = Len(result.functions)
    /\ source.st # "ok" => ~result.success

\* a failure that is neither a syntax error nor a missing file: the file
\* parses and the override file makes config.update raise
C9_Witness ==
  /\ result.raised = "None"
  /\ ~result.success
  /\ source.st = "ok"
  /\ result.error_type = "unknown"
  /\ result.functions = <<>>

-----------------------------------------------------------------------------
(* C10 *)

\* C10: after any sequence of load_config and analyze_file calls the preset
\* table holds exactly its original values.
C10_PresetsUnchanged == PRESETS = PresetTable

\* both calls made, with an override file and an environment preset overlaid
\* on the copy load_config returned
C10_Witness ==
  /\ Analysed
  /\ config.exc = "None"
  /\ config.preset = "strict_mccabe"
  /\ env = "comprehensive"
  /\ OverrideMap = Flag("name", "'Mine'")
  /\ config.val = PresetTable["comprehensive"]
  /\ used.val = PresetTable["comprehensive"]

-----------------------------------------------------------------------------
(* C11 *)

InitPass ==
  EngineInit(FunctionsOver({"FunctionDef", "If", "With", "BoolOp"}),
             {Absent, JsonFile(ObjectDoc(Flag("countIf", "False"))),
              JsonFile(ObjectDoc(Flag("countWith", "True")))},
             {NONE})

SpecPass == InitPass /\ [][NextPass]_vars

DecisionKinds == SimpleKinds \cup ComprehensionKinds \cup {"BoolOp", "Match"}

NoDecisionPoints(t, i) == \A j \in Subtree(t, i) : t[j].kind \notin DecisionKinds

\* the score is 1 plus the amounts recorded so far
C11_ScoreTracksDetails ==
  /\ ctr.pc # "idle" =>
       /\ ctr.complexity = 1 + SumAmounts(ctr.details)
       /\ ctr.complexity >= 1
       /\ ctr.details = <<>> => ctr.complexity = 1
  /\ ctr.pc = "done" =>
       /\ function_info.node = ctr.node
       /\ function_info.complexity >= 1
       /\ function_info.complexity = 1 + SumAmounts(function_info.details)
       /\ function_info.complexity =
            CounterVisit(Tree, ctr.node, ctr.cfg, NewCounter).complexity
       /\ NoDecisionPoints(Tree, function_info.node) =>
            function_info.complexity = 1 /\ function_info.details = <<>>

\* within one pass no step lowers the score; a pass starts at 1
C11_ScoreNeverDrops ==
  /\ ctr.pc = "visiting" => ctr'.complexity >= ctr.complexity
  /\ (ctr.pc # "visiting" /\ ctr'.pc = "visiting") => ctr'.complexity = 1

\* C11: at every step of a counting pass the running score is 1 plus the sum
\* of the amounts of the contributions recorded so far; it starts at 1 and
\* never decreases; the complexity stored in the FunctionRecord is at least 1
\* and is 1 plus the sum of the amounts of its details; a function with no
\* decision points gets complexity 1 and an empty list.
C11_RunningScore == []C11_ScoreTracksDetails /\ [][C11_ScoreNeverDrops]_vars

\* a finished pass that recorded two contributions
C11_Witness ==
  /\ ctr.pc = "done"
  /\ Len(function_info.details) = 2
  /\ function_info.complexity = 3

====
